---- MODULE Spec2Model ----
(***************************************************************************)
(* Model of the climate-data backend's in-memory tabular store             *)
(* (DataService), its two module-level singletons, the application         *)
(* startup sequence and the read operations built on top of the store.     *)
(*                                                                         *)
(* Representation:                                                         *)
(*   - an optional value is a sequence of length 0 (None / NaN) or 1;      *)
(*   - a string of digits (a station id) is the sequence of its digits,    *)
(*     so that string comparison can be computed;                          *)
(*   - temperatures are integers (tenths of a degree).                     *)
(***************************************************************************)
EXTENDS Integers, Sequences, FiniteSets, TLC

\* ------------------------------------------------------------------------
\* Bounds of the model
\* ------------------------------------------------------------------------
MaxRows == 2

StationNums == {9, 10}

Years == {1859, 1860}

YearArgs == {0, 1860}

Threads == {"t1", "t2"}

\* ------------------------------------------------------------------------
\* Optional values
\* ------------------------------------------------------------------------
None == <<>>

Some(x) == <<x>>

\* ------------------------------------------------------------------------
\* The source file format
\* ------------------------------------------------------------------------
required_cols == <<"Station Number", "Year">>

month_cols == <<"Jan", "Feb", "Mar", "Apr", "May", "Jun",
                "Jul", "Aug", "Sep", "Oct", "Nov", "Dec">>

NumMonths == 12

Range(s) == {s[i] : i \in 1..Len(s)}

AllCols == Range(required_cols) \cup Range(month_cols)

\* A raw cell of the file: a number, or a text that is not a number.
NumCell(v) == [num |-> TRUE, v |-> v, text |-> ""]

TextCell(s) == [num |-> FALSE, v |-> 0, text |-> s]

\* Position of a month column in the calendar (used to build inputs only).
Cal(name) == CHOOSE k \in 1..NumMonths : month_cols[k] = name

\* The month cells of a source row: every month a distinct number, or the
\* same with a null marker / a non-numeric text in one column.
FullCells == [name \in Range(month_cols) |-> NumCell(100 + Cal(name))]

NullCells == [name \in Range(month_cols) |->
                IF name = "Mar" THEN TextCell("null")
                ELSE IF name = "Dec" THEN TextCell("abc")
                ELSE NumCell(250 - Cal(name))]

SourceRow(station, year) ==
    [station |-> station, year |-> NumCell(year),
     cells |-> IF year = 1859 THEN FullCells ELSE NullCells]

\* a row whose Year cell is not a number
BadYearRow == [station |-> 9, year |-> TextCell("n/a"), cells |-> FullCells]

SourceRows ==
    {SourceRow(station, year) : station \in StationNums, year \in Years}
        \cup {BadYearRow}

RECURSIVE SeqsUpTo(_, _)
SeqsUpTo(S, n) ==
    IF n = 0 THEN {<<>>}
    ELSE LET shorter == SeqsUpTo(S, n - 1)
         IN  shorter \cup {Append(s, x) : s \in {q \in shorter : Len(q) = n - 1}, x \in S}

MissingFile == [exists |-> FALSE, columns |-> {}, rows |-> <<>>]

CsvFile(cols, rows) == [exists |-> TRUE, columns |-> cols, rows |-> rows]

Sources ==
    {MissingFile, CsvFile(AllCols \ {"Dec"}, <<>>)}
        \cup {CsvFile(AllCols, rows) : rows \in SeqsUpTo(SourceRows, MaxRows)}

\* The files offered under the non-default path.
AltSources ==
    {MissingFile,
     CsvFile(AllCols, <<>>),
     CsvFile(AllCols, <<SourceRow(10, 1860)>>)}

\* The files offered under the default path to the application as a whole.
AppSources ==
    {MissingFile,
     CsvFile(AllCols, <<>>),
     CsvFile(AllCols, <<SourceRow(9, 1859)>>),
     CsvFile(AllCols, <<SourceRow(10, 1860), SourceRow(9, 1859)>>)}

\* Source rows for the aggregations: a year with three values, a year with
\* one value, a year without a value.
FewCells == [name \in Range(month_cols) |->
                CASE name = "Jan" -> NumCell(101)
                  [] name = "Feb" -> NumCell(102)
                  [] name = "Mar" -> NumCell(104)
                  [] OTHER -> TextCell("null")]

OneCells == [name \in Range(month_cols) |->
                IF name = "Jan" THEN NumCell(103) ELSE TextCell("null")]

NoCells == [name \in Range(month_cols) |-> TextCell("null")]

Row(station, year, cells) ==
    [station |-> station, year |-> NumCell(year), cells |-> cells]

\* The file offered under the default path to the aggregation services.
AggSource ==
    CsvFile(AllCols, <<Row(9, 1859, FewCells), Row(9, 1860, OneCells),
                       Row(10, 1860, NoCells)>>)

\* A year in which the highest and the lowest value each occur twice.
TieCells == [name \in Range(month_cols) |->
                CASE name \in {"Jan", "Mar"} -> NumCell(105)
                  [] name \in {"Feb", "Apr"} -> NumCell(101)
                  [] OTHER -> TextCell("null")]

\* A second file for them: stations with different years and different
\* numbers of years, two years of one station having the same values.
TieSource ==
    CsvFile(AllCols, <<Row(9, 1859, TieCells), Row(10, 1860, TieCells),
                       Row(10, 1861, TieCells)>>)

AggSources == {AggSource, TieSource}

DATA_FILE_PATH == "data/climate_data.csv"

ALT_FILE_PATH == "tests/other.csv"

Paths == {DATA_FILE_PATH, ALT_FILE_PATH}

\* ------------------------------------------------------------------------
\* Strings of digits
\* ------------------------------------------------------------------------
RECURSIVE Str(_)
Str(n) == IF n < 10 THEN <<n>> ELSE Str(n \div 10) \o <<n % 10>>

\* a < b as strings (lexicographic, a proper prefix is smaller)
RECURSIVE StrLess(_, _)
StrLess(a, b) ==
    IF b = <<>> THEN FALSE
    ELSE IF a = <<>> THEN TRUE
    ELSE IF a[1] # b[1] THEN a[1] < b[1]
    ELSE StrLess(Tail(a), Tail(b))

StationName(sid) == [prefix |-> "Station ", id |-> sid]

NameLess(n1, n2) == StrLess(n1.id, n2.id)

\* ------------------------------------------------------------------------
\* load_data: from the rows of the file to the long-format table
\* ------------------------------------------------------------------------
Instances == {"shared", "legacy"}

\* services/data_loader.py keeps a (by default empty) name mapping.
STATION_NAMES == [sid \in {} |-> StationName(sid)]

\* pd.to_numeric(errors="coerce"): a number, or NaN; it never raises
to_numeric_raise(cell) ==
    [raises |-> ~cell.num, value |-> IF cell.num THEN Some(cell.v) ELSE None]

to_numeric(cell) ==
    [raises |-> FALSE, value |-> IF cell.num THEN Some(cell.v) ELSE None]

\* astype(int) on the year column: raises on a value that is not a number
astype_int(cell) == [raises |-> ~cell.num, value |-> cell.v]

\* {name: i + 1 for i, name in enumerate(month_cols)}
month_map_zero_based(name) == CHOOSE i \in 0..(NumMonths - 1) : month_cols[i + 1] = name


month_map(name) == (CHOOSE i \in 0..(NumMonths - 1) : month_cols[i + 1] = name) + 1

missing_cols(file) ==
    SelectSeq(required_cols \o month_cols, LAMBDA c : c \notin file.columns)

\* df.melt(id_vars, value_vars=month_cols): for every month column in the
\* order of month_cols, one record per source row in file order.
melt_column(rows, name) ==
    [i \in 1..Len(rows) |->
        [station_id |-> Str(rows[i].station),
         year |-> rows[i].year,
         month_name |-> name,
         temperature |-> rows[i].cells[name]]]

RECURSIVE melt_from(_, _)
melt_from(rows, k) ==
    IF k > NumMonths THEN <<>>
    ELSE melt_column(rows, month_cols[k]) \o melt_from(rows, k + 1)

melt_repeating(rows) == melt_from(rows, 1) \o melt_column(rows, month_cols[NumMonths])

melt(rows) == melt_from(rows, 1)

\* the station_name column of each class
station_name_for(inst, sid) ==
    IF inst = "legacy" /\ sid \in DOMAIN STATION_NAMES
    THEN STATION_NAMES[sid]
    ELSE StationName(sid)

\* month, station_name and temperature columns; column selection
to_reading(inst, m) ==
    [station_id |-> m.station_id,
     station_name |-> station_name_for(inst, m.station_id),
     year |-> astype_int(m.year).value,
     month |-> month_map(m.month_name),
     temperature |-> to_numeric(m.temperature).value]

\* sort key (station_id, year, month), station_id as a string
KeyLess(a, b) ==
    IF a.station_id # b.station_id THEN StrLess(a.station_id, b.station_id)
    ELSE IF a.year # b.year THEN a.year < b.year
    ELSE a.month < b.month

\* the same key with station_id compared as a number
RECURSIVE StrVal(_)
StrVal(s) == IF s = <<>> THEN 0 ELSE StrVal(SubSeq(s, 1, Len(s) - 1)) * 10 + s[Len(s)]

KeyLessNumeric(a, b) ==
    IF a.station_id # b.station_id THEN StrVal(a.station_id) < StrVal(b.station_id)
    ELSE IF a.year # b.year THEN a.year < b.year
    ELSE a.month < b.month

StationLess(a, b) == NameLess(a.name, b.name)

\* the order a sort_values call sorts by
Before(by, a, b) ==
    CASE by = "station_id, year, month" -> KeyLess(a, b)
      [] by = "numeric station_id, year, month" -> KeyLessNumeric(a, b)
      [] by = "name" -> StationLess(a, b)

\* stable insertion of x into the sorted sequence s
RECURSIVE InsertBy(_, _, _)
InsertBy(by, s, x) ==
    IF s = <<>> THEN <<x>>
    ELSE IF Before(by, x, s[1]) THEN <<x>> \o s
    ELSE <<s[1]>> \o InsertBy(by, Tail(s), x)

RECURSIVE SortBy(_, _)
SortBy(by, s) ==
    IF s = <<>> THEN <<>>
    ELSE InsertBy(by, SortBy(by, SubSeq(s, 1, Len(s) - 1)), s[Len(s)])

sort_values_numeric(rows) == SortBy("numeric station_id, year, month", rows)

sort_values(rows) == SortBy("station_id, year, month", rows)

\* lines 94-125: the table load_data builds from the rows of the file
build_df(inst, rows) ==
    LET melted == melt(rows)
    IN  sort_values([i \in 1..Len(melted) |-> to_reading(inst, melted[i])])

\* drop_duplicates on (station_id, station_name): first occurrences, in order
RECURSIVE drop_duplicates(_)
drop_duplicates(s) ==
    IF s = <<>> THEN <<>>
    ELSE LET init == SubSeq(s, 1, Len(s) - 1)
             last == s[Len(s)]
         IN  IF \E i \in 1..Len(init) : init[i] = last
             THEN drop_duplicates(init)
             ELSE Append(drop_duplicates(init), last)

\* lines 130-139: the station list of a table
extract_stations(rows) ==
    SortBy("name",
           drop_duplicates([i \in 1..Len(rows) |->
               [id |-> rows[i].station_id, name |-> rows[i].station_name]]))

\* lines 115-119: a conversion of the melted table raises
conversion_raises(rows) ==
    LET melted == melt(rows)
    IN  \E i \in 1..Len(melted) :
            \/ to_numeric(melted[i].temperature).raises
            \/ astype_int(melted[i].year).raises

\* An exception: its class, and for a DataLoadError what its message says
\* (which of the three messages, the columns it names) and its __cause__.
Exception(type) == [type |-> type, kind |-> "", missing |-> <<>>, cause |-> None]

DataLoadError(kind, missing, cause) ==
    [type |-> "DataLoadError", kind |-> kind, missing |-> missing, cause |-> cause]

\* lines 63-144: what the body of the try statement raises, if anything
try_body_raises(file) ==
    IF missing_cols(file) # <<>>
    THEN Some(DataLoadError("schema", missing_cols(file), None))
    ELSE IF conversion_raises(file.rows)
    THEN Some(Exception("ValueError"))
    ELSE None

\* lines 146-150: except DataLoadError: raise / except Exception as e: raise ... from e
except_clauses_rewrapping(exc) == DataLoadError("parse", <<>>, Some(exc))

except_clauses(exc) ==
    IF exc.type = "DataLoadError" THEN exc
    ELSE DataLoadError("parse", <<>>, Some(exc))

\* lines 55-61 and the try statement: the exception load_data ends with, if any
load_raises(file) ==
    IF ~file.exists THEN Some(DataLoadError("not_found", <<>>, None))
    ELSE LET raised == try_body_raises(file)
         IN  IF raised # None THEN Some(except_clauses(raised[1])) ELSE None

\* The outcome of load_data on a file, before anything is published.
load_outcome(inst, file) ==
    LET exc == load_raises(file)
    IN  IF exc # None
        THEN [ok |-> FALSE, error |-> exc[1].kind, missing |-> exc[1].missing,
              table |-> <<>>, exc |-> exc]
        ELSE [ok |-> TRUE, error |-> "", missing |-> <<>>,
              table |-> build_df(inst, file.rows), exc |-> None]

\* line 127: self._df = df
publish_appending(old, new) ==
    Some(IF old = None THEN new ELSE sort_values(old[1] \o new))

publish_df(old, new) == Some(new)

\* ------------------------------------------------------------------------
\* get_data: the filters
\* ------------------------------------------------------------------------
SeqToSet(s) == {s[i] : i \in 1..Len(s)}

\* station_ids, year_from and year_to are optional; Python truthiness decides
\* whether a filter applies.
Truthy_ids(opt) == opt # None /\ opt[1] # <<>>

Truthy_int(opt) == opt # None /\ opt[1] # 0

filter_data(rows, station_ids, year_from, year_to) ==
    LET byStation == IF Truthy_ids(station_ids)
                     THEN SelectSeq(rows, LAMBDA r : r.station_id \in SeqToSet(station_ids[1]))
                     ELSE rows
        byFrom == IF Truthy_int(year_from)
                  THEN SelectSeq(byStation, LAMBDA r : r.year >= year_from[1])
                  ELSE byStation
    IN  IF Truthy_int(year_to)
        THEN SelectSeq(byFrom, LAMBDA r : r.year <= year_to[1])
        ELSE byFrom

\* ------------------------------------------------------------------------
\* State
\* ------------------------------------------------------------------------
VARIABLES
    files,      \* path -> the file stored under it (never rewritten)
    df,         \* instance -> self._df: None or the table
    stations,   \* instance -> self._stations
    started,    \* the application's lifespan startup has completed
    lastOp,     \* the last call: its name, store, outcome and returned object
    firstLoad,  \* instance -> path -> what the first successful load published
    thread,     \* thread -> position and locals of a call in progress
    temperatures, \* the list handed to a standalone utility
    grok        \* the GrokClient: self._client and the HTTP clients it created

vars == <<files, df, stations, started, lastOp, firstLoad, thread, temperatures, grok>>

NoOp == [op |-> "none", inst |-> "shared", path |-> "", loaded |-> FALSE,
         reload |-> FALSE, ok |-> TRUE, error |-> None, result |-> <<>>]

Idle == [pc |-> "idle", path |-> "", ret |-> "", local |-> None]

InitStore ==
    /\ df = [i \in Instances |-> None]
    /\ stations = [i \in Instances |-> <<>>]
    /\ started = FALSE
    /\ lastOp = NoOp
    /\ firstLoad = [i \in Instances |-> [p \in Paths |-> None]]
    /\ thread = [t \in Threads |-> Idle]
    /\ grok = [client |-> None, http |-> <<>>]

InitFiles ==
    \E d \in AppSources, a \in AltSources :
        files = [p \in Paths |-> IF p = DATA_FILE_PATH THEN d ELSE a]

Init == InitFiles /\ InitStore /\ temperatures = <<>>

\* ------------------------------------------------------------------------
\* DataService, one call at a time
\* ------------------------------------------------------------------------
\* The store after load_data(path) has run to its end on instance inst:
\* both attributes are replaced on success, none on failure.
after_load_clearing(inst, path) ==
    LET out == load_outcome(inst, files[path])
    IN  IF out.ok
        THEN [ok |-> TRUE, loaded |-> TRUE, path |-> path, error |-> None,
              df |-> publish_df(df[inst], out.table),
              stations |-> extract_stations(out.table)]
        ELSE [ok |-> FALSE, loaded |-> TRUE, path |-> path, error |-> out.exc,
              df |-> None, stations |-> <<>>]

after_load(inst, path) ==
    LET out == load_outcome(inst, files[path])
    IN  IF out.ok
        THEN [ok |-> TRUE, loaded |-> TRUE, path |-> path, error |-> None,
              df |-> publish_df(df[inst], out.table),
              stations |-> extract_stations(out.table)]
        ELSE [ok |-> FALSE, loaded |-> TRUE, path |-> path, error |-> out.exc,
              df |-> df[inst], stations |-> stations[inst]]

no_load(inst) ==
    [ok |-> TRUE, loaded |-> FALSE, path |-> "", error |-> None,
     df |-> df[inst], stations |-> stations[inst]]

\* the df property: load when self._df is None
df_needs_load(inst) == df[inst] = None

df_property(inst) ==
    IF df_needs_load(inst) THEN after_load(inst, DATA_FILE_PATH) ELSE no_load(inst)

\* get_stations: load when self._stations is empty
stations_needs_load(inst) == stations[inst] = <<>>

get_stations(inst) ==
    IF stations_needs_load(inst) THEN after_load(inst, DATA_FILE_PATH) ELSE no_load(inst)

\* What a call leaves behind: the store of instance inst, the record of the
\* call, and the snapshot of the first successful load of a path.
Finish(inst, s, op, result) ==
    /\ df' = [df EXCEPT ![inst] = s.df]
    /\ stations' = [stations EXCEPT ![inst] = s.stations]
    /\ lastOp' = [op |-> op, inst |-> inst, path |-> s.path, loaded |-> s.loaded,
                  reload |-> s.loaded /\ s.ok /\ firstLoad[inst][s.path] # None,
                  ok |-> s.ok, error |-> s.error,
                  result |-> IF s.ok THEN result ELSE <<>>]
    /\ firstLoad' =
         IF s.loaded /\ s.ok /\ firstLoad[inst][s.path] = None
         THEN [firstLoad EXCEPT ![inst][s.path] =
                  Some([df |-> s.df[1], stations |-> s.stations])]
         ELSE firstLoad
    /\ UNCHANGED <<grok, temperatures, files, thread>>

\* main.py imports data_service from app.services.data_loader
startup_store == "legacy"

\* core.dependencies.get_data_service and the domain services use the
\* data_service of app.domains.shared
handler_store == "shared"

\* DataService.load_data(file_path) called directly
LoadData(inst, path) ==
    /\ Finish(inst, after_load(inst, path), "load_data", <<>>)
    /\ UNCHANGED started

\* main.lifespan: the startup sequence loads services.data_loader.data_service
Startup ==
    /\ ~started
    /\ Finish(startup_store, after_load(startup_store, DATA_FILE_PATH), "startup", <<>>)
    /\ started' = after_load(startup_store, DATA_FILE_PATH).ok

\* DataService.get_stations
GetStations(inst) ==
    LET s == get_stations(inst)
    IN  /\ Finish(inst, s, "get_stations", s.stations)
        /\ UNCHANGED started

\* DataService.station_exists
StationExists(inst, sid) ==
    LET s == get_stations(inst)
    IN  /\ Finish(inst, s, "station_exists",
                  <<sid \in {s.stations[i].id : i \in 1..Len(s.stations)}>>)
        /\ UNCHANGED started

\* DataService.get_data
GetData(inst, station_ids, year_from, year_to) ==
    LET s == df_property(inst)
    IN  /\ Finish(inst, s, "get_data",
                  IF s.ok THEN filter_data(s.df[1], station_ids, year_from, year_to)
                  ELSE <<>>)
        /\ UNCHANGED started

\* ------------------------------------------------------------------------
\* The services on top of the store (all read domains.shared.data_service)
\* ------------------------------------------------------------------------
\* StationsService.validate_stations: the ids that are not in the directory
invalid_stations_none(station_ids, directory) == <<>>

invalid_stations(station_ids, directory) ==
    SelectSeq(station_ids, LAMBDA sid : sid \notin {directory[i].id : i \in 1..Len(directory)})

ValidateStations(station_ids) ==
    LET s == get_stations(handler_store)
    IN  /\ Finish(handler_store, s, "validate_stations", invalid_stations(station_ids, s.stations))
        /\ UNCHANGED started

\* ClimateDataService.get_monthly_data: one record per requested station that
\* has rows, in the order of the request
station_df(rows, sid) == SelectSeq(rows, LAMBDA r : r.station_id = sid)

RECURSIVE monthly_stations(_, _)
monthly_stations(rows, station_ids) ==
    IF station_ids = <<>> THEN <<>>
    ELSE LET sdf == station_df(rows, Head(station_ids))
             rest == monthly_stations(rows, Tail(station_ids))
         IN  IF sdf = <<>> THEN rest
             ELSE <<[station_id |-> Head(station_ids),
                     station_name |-> sdf[1].station_name,
                     data |-> [i \in 1..Len(sdf) |->
                                 [year |-> sdf[i].year, month |-> sdf[i].month,
                                  temperature |-> sdf[i].temperature]]]>> \o rest

RECURSIVE SumLen(_)
SumLen(recs) == IF recs = <<>> THEN 0 ELSE Len(Head(recs).data) + SumLen(Tail(recs))

get_monthly_data(rows, station_ids) ==
    LET recs == monthly_stations(rows, station_ids)
    IN  [stations |-> recs, total_points |-> SumLen(recs)]

GetMonthly(station_ids, year_from, year_to) ==
    LET s == df_property(handler_store)
    IN  /\ Finish(handler_store, s, "get_monthly_data",
                  IF s.ok
                  THEN <<get_monthly_data(
                           filter_data(s.df[1], Some(station_ids), year_from, year_to),
                           station_ids)>>
                  ELSE <<>>)
        /\ UNCHANGED started

\* ------------------------------------------------------------------------
\* Numbers.  A temperature is a whole number of tenths of a degree; a mean is
\* the fraction num/den of such numbers, a standard deviation the square root
\* of a fraction (the variance).  A figure rounded to 2 decimals is a whole
\* number of hundredths, one rounded to 1 decimal a whole number of tenths.
\* round() is modelled on the exact value, halves going to the even neighbour.
\* ------------------------------------------------------------------------
RECURSIVE Sum(_)
Sum(xs) == IF xs = <<>> THEN 0 ELSE Head(xs) + Sum(Tail(xs))

RECURSIVE SumSq(_)
SumSq(xs) == IF xs = <<>> THEN 0 ELSE Head(xs) * Head(xs) + SumSq(Tail(xs))

Min(S) == CHOOSE x \in S : \A y \in S : x <= y

Max(S) == CHOOSE x \in S : \A y \in S : x >= y

Zero == [num |-> 0, den |-> 1]

\* the non-null values of a temperature column (Series.dropna / t is not None)
dropna(col) ==
    LET kept == SelectSeq(col, LAMBDA t : t # None)
    IN  [i \in 1..Len(kept) |-> kept[i][1]]

\* pandas mean: NaN for a column without a value
series_mean_of_cells(col) ==
    LET xs == dropna(col)
    IN  IF xs = <<>> THEN None ELSE Some([num |-> Sum(xs), den |-> Len(col)])

series_mean(col) ==
    LET xs == dropna(col)
    IN  IF xs = <<>> THEN None ELSE Some([num |-> Sum(xs), den |-> Len(xs)])

\* the variance with divisor N - ddof, as a fraction
variance(xs, ddof) ==
    [num |-> Len(xs) * SumSq(xs) - Sum(xs) * Sum(xs),
     den |-> Len(xs) * (Len(xs) - ddof)]

\* pandas std (ddof=1): NaN for a column with fewer than 2 values; the value
\* is the square root of the fraction returned
series_std(col) ==
    LET xs == dropna(col)
    IN  IF Len(xs) < 2 THEN None ELSE Some(variance(xs, 1))

\* k/2 <= 10 * (m + g * sqrt(v)), for g in {-1, 0, 1}
HalfLeq(k, m, g, v) ==
    LET t == k * m.den - 20 * m.num
    IN  CASE g = 0 -> t <= 0
          [] g = 1 -> t <= 0 \/ t * t * v.den <= 400 * m.den * m.den * v.num
          [] g = -1 -> t <= 0 /\ t * t * v.den >= 400 * m.den * m.den * v.num

\* k/2 >= 10 * (m + g * sqrt(v))
HalfGeq(k, m, g, v) ==
    LET t == k * m.den - 20 * m.num
    IN  CASE g = 0 -> t >= 0
          [] g = 1 -> t >= 0 /\ t * t * v.den >= 400 * m.den * m.den * v.num
          [] g = -1 -> t >= 0 \/ t * t * v.den <= 400 * m.den * m.den * v.num

RECURSIVE RoundUpFrom(_, _, _, _)
RoundUpFrom(u, m, g, v) ==
    IF HalfGeq(2 * u + 1, m, g, v)
    THEN IF HalfLeq(2 * u + 1, m, g, v) /\ u % 2 = 1 THEN u + 1 ELSE u
    ELSE RoundUpFrom(u + 1, m, g, v)

RECURSIVE RoundDownFrom(_, _, _, _)
RoundDownFrom(u, m, g, v) ==
    IF HalfLeq(2 * u - 1, m, g, v)
    THEN IF HalfGeq(2 * u - 1, m, g, v) /\ u % 2 = 1 THEN u - 1 ELSE u
    ELSE RoundDownFrom(u - 1, m, g, v)

\* round(float(m + g * sqrt(v)), 2), in hundredths
round2(m, g, v) ==
    IF g >= 0 THEN RoundUpFrom((10 * m.num) \div m.den, m, g, v)
    ELSE RoundDownFrom(-((-(10 * m.num)) \div m.den), m, g, v)

\* round(a / b, 0) for a >= 0, b > 0
RoundDiv(a, b) ==
    LET q == a \div b
        r == a % b
    IN  IF 2 * r < b THEN q
        ELSE IF 2 * r > b THEN q + 1
        ELSE IF q % 2 = 0 THEN q ELSE q + 1

\* a < b for two fractions with positive denominators
FracLess(a, b) == a.num * b.den < b.num * a.den

\* ------------------------------------------------------------------------
\* ClimateDataService.get_annual_data
\* ------------------------------------------------------------------------
RECURSIVE SortedSeq(_)
SortedSeq(S) == IF S = {} THEN <<>> ELSE <<Min(S)>> \o SortedSeq(S \ {Min(S)})

\* groupby("year"): the group keys in ascending order
group_keys(sdf) == SortedSeq({sdf[i].year : i \in 1..Len(sdf)})

\* the temperature column of one group
group_column(sdf, y) ==
    LET g == SelectSeq(sdf, LAMBDA r : r.year = y)
    IN  [i \in 1..Len(g) |-> g[i].temperature]

\* lines 124-125 with the std figure the aggregation produced
std_kept(std) == IF std = None THEN [num |-> 1, den |-> 1] ELSE std[1]

std_or_zero(std) == IF std = None THEN Zero ELSE std[1]

\* lines 131-144: the AnnualDataPoint of a group whose mean is a number
AnnualDataPoint(y, col) ==
    LET mean_val == series_mean(col)[1]
        std_val == std_or_zero(series_std(col))
        xs == dropna(col)
    IN  [year |-> y,
         mean |-> round2(mean_val, 0, Zero),
         std |-> round2(Zero, 1, std_val),
         min_temp |-> 10 * Min(Range(xs)),
         max_temp |-> 10 * Max(Range(xs)),
         upper_bound |-> round2(mean_val, 1, std_val),
         lower_bound |-> round2(mean_val, -1, std_val)]

\* lines 122-145: one point per group, a group whose mean is NaN is skipped
RECURSIVE annual_points(_, _)
annual_points(sdf, keys) ==
    IF keys = <<>> THEN <<>>
    ELSE LET col == group_column(sdf, Head(keys))
             rest == annual_points(sdf, Tail(keys))
         IN  IF series_mean(col) = None THEN rest
             ELSE <<AnnualDataPoint(Head(keys), col)>> \o rest

RECURSIVE annual_stations(_, _)
annual_stations(rows, station_ids) ==
    IF station_ids = <<>> THEN <<>>
    ELSE LET sdf == station_df(rows, Head(station_ids))
             rest == annual_stations(rows, Tail(station_ids))
         IN  IF sdf = <<>> THEN rest
             ELSE <<[station_id |-> Head(station_ids),
                     station_name |-> sdf[1].station_name,
                     data |-> annual_points(sdf, group_keys(sdf))]>> \o rest

get_annual_data_union(rows, station_ids) ==
    LET recs == annual_stations(rows, station_ids)
    IN  [stations |-> recs,
         total_years |-> Cardinality({y \in {rows[j].year : j \in 1..Len(rows)} :
                                        \E i \in 1..Len(recs) :
                                           \E k \in 1..Len(recs[i].data) :
                                              recs[i].data[k].year = y})]

get_annual_data(rows, station_ids) ==
    LET recs == annual_stations(rows, station_ids)
    IN  [stations |-> recs,
         total_years |-> Max({0} \cup {Len(recs[i].data) : i \in 1..Len(recs)})]

GetAnnual(station_ids, year_from, year_to) ==
    LET s == df_property(handler_store)
    IN  /\ Finish(handler_store, s, "get_annual_data",
                  IF s.ok
                  THEN <<get_annual_data(
                           filter_data(s.df[1], Some(station_ids), year_from, year_to),
                           station_ids)>>
                  ELSE <<>>)
        /\ UNCHANGED started

\* ------------------------------------------------------------------------
\* AnalyticsService.get_analytics
\* ------------------------------------------------------------------------
temperature_column(sdf) == [i \in 1..Len(sdf) |-> sdf[i].temperature]

\* idxmin / idxmax: the first row that holds the value
first_row_with(sdf, t) ==
    sdf[Min({i \in 1..Len(sdf) : sdf[i].temperature = Some(t)})]

\* groupby("year")["temperature"].mean().dropna(), in ascending order of year
RECURSIVE yearly_means(_, _)
yearly_means(sdf, keys) ==
    IF keys = <<>> THEN <<>>
    ELSE LET m == series_mean(group_column(sdf, Head(keys)))
             rest == yearly_means(sdf, Tail(keys))
         IN  IF m = None THEN rest
             ELSE <<[year |-> Head(keys), mean |-> m[1]]>> \o rest

\* Series.idxmin / idxmax of the yearly means: the first year with the extreme
coldest(ym) ==
    ym[Min({i \in 1..Len(ym) : \A j \in 1..Len(ym) : ~FracLess(ym[j].mean, ym[i].mean)})]

hottest(ym) ==
    ym[Min({i \in 1..Len(ym) : \A j \in 1..Len(ym) : ~FracLess(ym[i].mean, ym[j].mean)})]

\* line 60: float(temps.std()) if len(temps) > 1 else 0.0
std_temp(col) == IF Len(dropna(col)) > 1 THEN series_std(col)[1] ELSE Zero

\* lines 56-108: the StationAnalytics of a station that has a temperature
StationAnalytics(sid, sdf) ==
    LET col == temperature_column(sdf)
        temps == dropna(col)
        min_row == first_row_with(sdf, Min(Range(temps)))
        max_row == first_row_with(sdf, Max(Range(temps)))
        ym == yearly_means(sdf, group_keys(sdf))
    IN  [station_id |-> sid,
         station_name |-> sdf[1].station_name,
         min_temp |-> 10 * Min(Range(temps)),
         min_temp_year |-> min_row.year,
         min_temp_month |-> min_row.month,
         max_temp |-> 10 * Max(Range(temps)),
         max_temp_year |-> max_row.year,
         max_temp_month |-> max_row.month,
         mean_temp |-> round2(series_mean(col)[1], 0, Zero),
         std_temp |-> round2(Zero, 1, std_temp(col)),
         coldest_year |-> coldest(ym).year,
         coldest_year_temp |-> round2(coldest(ym).mean, 0, Zero),
         hottest_year |-> hottest(ym).year,
         hottest_year_temp |-> round2(hottest(ym).mean, 0, Zero),
         data_coverage |-> RoundDiv(1000 * Len(temps), Len(sdf))]

RECURSIVE analytics_stations(_, _)
analytics_stations(rows, station_ids) ==
    IF station_ids = <<>> THEN <<>>
    ELSE LET sdf == station_df(rows, Head(station_ids))
             rest == analytics_stations(rows, Tail(station_ids))
         IN  IF sdf = <<>> THEN rest
             ELSE IF dropna(temperature_column(sdf)) = <<>> THEN rest
             ELSE <<StationAnalytics(Head(station_ids), sdf)>> \o rest

FALLBACK_MIN_YEAR == 1859

FALLBACK_MAX_YEAR == 2019

get_analytics(rows, station_ids) ==
    LET recs == analytics_stations(rows, station_ids)
        years == {rows[i].year : i \in 1..Len(rows)}
    IN  [stations |-> recs,
         year_range |-> IF rows = <<>> THEN <<FALLBACK_MIN_YEAR, FALLBACK_MAX_YEAR>>
                        ELSE <<Min(years), Max(years)>>,
         total_stations |-> Len(recs)]

GetAnalytics(station_ids, year_from, year_to) ==
    LET s == df_property(handler_store)
    IN  /\ Finish(handler_store, s, "get_analytics",
                  IF s.ok
                  THEN <<get_analytics(
                           filter_data(s.df[1], Some(station_ids), year_from, year_to),
                           station_ids)>>
                  ELSE <<>>)
        /\ UNCHANGED started

\* ------------------------------------------------------------------------
\* The HTTP endpoints of the climate_data and analytics domains
\* ------------------------------------------------------------------------
YEAR_GE == 1800

YEAR_LE == 2100

\* Query(None, ge=1800, le=2100): a year outside the range is refused before
\* the handler runs
query_year_accepted(year) ==
    IF year = None THEN TRUE ELSE year[1] >= YEAR_GE /\ year[1] <= YEAR_LE

\* [s.strip() for s in stations.split(",") if s.strip()]: the stations
\* parameter is the sequence of its comma-separated items, a blank item <<>>
split_strip(raw) == SelectSeq(raw, LAMBDA item : item # <<>>)

\* validate_year_range: the condition under which it raises
year_range_refused(year_from, year_to) ==
    Truthy_int(year_from) /\ Truthy_int(year_to) /\ year_from[1] > year_to[1]

\* what the service behind an endpoint returns
core_result(endpoint, rows, station_ids) ==
    CASE endpoint = "GET /data/monthly" -> get_monthly_data(rows, station_ids)
      [] endpoint = "GET /data/annual" -> get_annual_data(rows, station_ids)
      [] endpoint = "GET /analytics" -> get_analytics(rows, station_ids)

Request(raw, year_from, year_to) ==
    [stations |-> raw, year_from |-> year_from, year_to |-> year_to]

\* a response that an exception produced (main.py exception handlers)
Refused(request, status, error, station_ids) ==
    [request |-> request, status |-> status, error |-> error,
     station_ids |-> station_ids, core |-> None, body |-> None]

\* a response of the service, with the arguments the service was called with
Served(request, station_ids, body) ==
    [request |-> request, status |-> 200, error |-> "", station_ids |-> <<>>,
     core |-> Some([station_ids |-> station_ids, year_from |-> request.year_from,
                    year_to |-> request.year_to]),
     body |-> Some(body)]

\* get_monthly_data / get_annual_data / get_analytics route handlers
Endpoint(endpoint, raw, year_from, year_to) ==
    LET request == Request(raw, year_from, year_to)
        station_ids == split_strip(raw)
        checked == get_stations(handler_store)
        invalid == invalid_stations(station_ids, checked.stations)
        read == IF checked.loaded THEN checked ELSE df_property(handler_store)
    IN  /\ started
        /\ query_year_accepted(year_from) /\ query_year_accepted(year_to)
        /\ UNCHANGED started
        /\ IF station_ids = <<>>
           THEN Finish(handler_store, no_load(handler_store), endpoint,
                       <<Refused(request, 400, "HTTPException", <<>>)>>)
           ELSE IF ~checked.ok
           THEN Finish(handler_store, checked, endpoint, <<>>)
           ELSE IF invalid # <<>>
           THEN Finish(handler_store, checked, endpoint,
                       <<Refused(request, 404, "StationNotFoundError", invalid)>>)
           ELSE IF year_range_refused(year_from, year_to)
           THEN Finish(handler_store, checked, endpoint,
                       <<Refused(request, 400, "InvalidDateRangeError", <<>>)>>)
           ELSE Finish(handler_store, read, endpoint,
                       IF read.ok
                       THEN <<Served(request, station_ids,
                                core_result(endpoint,
                                    filter_data(read.df[1], Some(station_ids),
                                                year_from, year_to),
                                    station_ids))>>
                       ELSE <<>>)

\* ------------------------------------------------------------------------
\* A caller changing the object a call returned
\* ------------------------------------------------------------------------
BogusStation == [id |-> <<0>>, name |-> StationName(<<0>>)]

Mutations == {"clear", "append", "pop"}

mutated(list, how) ==
    CASE how = "clear" -> <<>>
      [] how = "append" -> Append(list, BogusStation)
      [] how = "pop" -> IF list = <<>> THEN <<>> ELSE SubSeq(list, 1, Len(list) - 1)

\* get_stations returns self._stations itself: the caller's list and the
\* store's list are one object until the next load binds a new list.
MutateStationsResult(how) ==
    /\ lastOp.op = "get_stations" /\ lastOp.ok
    /\ how = "append" => BogusStation \notin Range(stations[lastOp.inst])
    /\ stations' = [stations EXCEPT ![lastOp.inst] = mutated(stations[lastOp.inst], how)]
    /\ lastOp' = [lastOp EXCEPT !.op = "mutate_stations", !.loaded = FALSE,
                                !.reload = FALSE,
                                !.result = mutated(lastOp.result, how)]
    /\ UNCHANGED <<grok, temperatures, files, df, started, firstLoad, thread>>

\* get_data returns a copy (self.df.copy(), then filtered): changing it
\* changes the caller's object only.
MutateDataResult ==
    /\ lastOp.op = "get_data" /\ lastOp.ok /\ lastOp.result # <<>>
    /\ lastOp' = [lastOp EXCEPT !.op = "mutate_data", !.loaded = FALSE,
                                !.reload = FALSE,
                                !.result = Tail(lastOp.result)]
    /\ UNCHANGED <<grok, temperatures, files, df, stations, started, firstLoad, thread>>

\* ------------------------------------------------------------------------
\* Arguments
\* ------------------------------------------------------------------------
StationIdLists == {<<>>, <<Str(9)>>, <<Str(10), Str(9)>>, <<Str(7), Str(10)>>}

OptIds == {None} \cup {Some(l) : l \in StationIdLists}

OptYears == {None} \cup {Some(y) : y \in YearArgs}

StationIdArgs == {Str(9), Str(10), Str(7)}

\* ------------------------------------------------------------------------
\* Specification of the store and its services, one call at a time
\* ------------------------------------------------------------------------
Next ==
    \/ Startup
    \/ \E p \in Paths : LoadData(handler_store, p)
    \/ GetStations(handler_store)
    \/ \E sid \in StationIdArgs : StationExists(handler_store, sid)
    \/ \E ids \in OptIds, yf \in OptYears, yt \in OptYears : GetData(handler_store, ids, yf, yt)
    \/ \E ids \in StationIdLists : ValidateStations(ids)
    \/ \E ids \in StationIdLists, yf \in OptYears, yt \in OptYears : GetMonthly(ids, yf, yt)
    \/ \E ids \in StationIdLists, yf \in OptYears, yt \in OptYears : GetAnnual(ids, yf, yt)
    \/ \E ids \in StationIdLists, yf \in OptYears, yt \in OptYears : GetAnalytics(ids, yf, yt)
    \/ \E how \in Mutations : MutateStationsResult(how)
    \/ MutateDataResult

Spec == Init /\ [][Next]_vars

\* ------------------------------------------------------------------------
\* Specification of loading and querying one store, over all bounded files
\* ------------------------------------------------------------------------
InitLoad ==
    /\ \E d \in Sources, a \in AltSources :
          files = [p \in Paths |-> IF p = DATA_FILE_PATH THEN d ELSE a]
    /\ InitStore
    /\ temperatures = <<>>

QueryIds == {None, Some(<<Str(9)>>), Some(<<Str(10), Str(9)>>)}

NextLoad ==
    \/ \E p \in Paths : LoadData("shared", p)
    \/ GetStations("shared")
    \/ \E ids \in QueryIds, yf \in OptYears, yt \in OptYears : GetData("shared", ids, yf, yt)

SpecLoad == InitLoad /\ [][NextLoad]_vars

\* ------------------------------------------------------------------------
\* Specification of loads that fail, on both stores: the second path holds a
\* file of each failure kind, the default path a loadable file or none
\* ------------------------------------------------------------------------
FailingSources ==
    {MissingFile, CsvFile(AllCols \ {"Dec"}, <<>>), CsvFile(AllCols, <<BadYearRow>>)}

LoadableSources ==
    {CsvFile(AllCols, <<SourceRow(9, 1859)>>),
     CsvFile(AllCols, <<SourceRow(10, 1860), SourceRow(9, 1859)>>)}

InitFail ==
    /\ \E d \in LoadableSources \cup {MissingFile}, a \in FailingSources :
          files = [p \in Paths |-> IF p = DATA_FILE_PATH THEN d ELSE a]
    /\ InitStore
    /\ temperatures = <<>>

NextFail ==
    \/ \E inst \in Instances, p \in Paths : LoadData(inst, p)
    \/ \E inst \in Instances : GetStations(inst)
    \/ \E inst \in Instances, ids \in QueryIds, yf \in OptYears, yt \in OptYears :
          GetData(inst, ids, yf, yt)

SpecFail == InitFail /\ [][NextFail]_vars

\* ------------------------------------------------------------------------
\* Specification of the aggregation services and their endpoints
\* ------------------------------------------------------------------------
InitAgg ==
    /\ \E d \in AggSources :
          files = [p \in Paths |-> IF p = DATA_FILE_PATH THEN d ELSE MissingFile]
    /\ InitStore
    /\ temperatures = <<>>

Endpoints == {"GET /data/monthly", "GET /data/annual", "GET /analytics"}

\* the stations parameter of a request, as its comma-separated items
StationsParams ==
    {<<<<>>>>, <<Str(9)>>, <<Str(10), <<>>, Str(9)>>, <<Str(7), Str(10)>>}

HttpYearsFrom == {None, Some(0), Some(1860)}

HttpYearsTo == {None, Some(1859)}

AggIdLists ==
    {<<Str(9)>>, <<Str(10), Str(9)>>, <<Str(7), Str(10)>>, <<Str(9), Str(9)>>}

NextAgg ==
    \/ Startup
    \/ \E e \in Endpoints, raw \in StationsParams, yf \in HttpYearsFrom, yt \in HttpYearsTo :
          Endpoint(e, raw, yf, yt)
    \/ \E ids \in AggIdLists, yf \in OptYears, yt \in OptYears : GetMonthly(ids, yf, yt)
    \/ \E ids \in AggIdLists, yf \in OptYears, yt \in OptYears : GetAnnual(ids, yf, yt)
    \/ \E ids \in AggIdLists, yf \in OptYears, yt \in OptYears : GetAnalytics(ids, yf, yt)

SpecAgg == InitAgg /\ [][NextAgg]_vars


\* ------------------------------------------------------------------------
\* The standalone utilities (services/analytics.py, lines 238-278), applied
\* to bounded lists of temperatures
\* ------------------------------------------------------------------------
MaxTemps == 3

TemperatureCells == {None, Some(101), Some(102), Some(104)}

TemperatureLists == SeqsUpTo(TemperatureCells, MaxTemps)

\* lines 251-254: the mean of the values that are not None, as a fraction
compute_annual_mean(temps) ==
    LET valid_temps == dropna(temps)
    IN  IF valid_temps = <<>>
        THEN [raises |-> Some(Exception("ValueError")), value |-> None]
        ELSE [raises |-> None,
              value |-> Some([num |-> Sum(valid_temps), den |-> Len(valid_temps)])]

\* lines 272-278: the square root of the variance returned, divisor len
compute_annual_std_or_zero(temps) ==
    LET valid_temps == dropna(temps)
    IN  IF Len(valid_temps) < 2
        THEN [raises |-> None, value |-> Some(Zero)]
        ELSE [raises |-> None, value |-> Some(variance(valid_temps, 0))]

compute_annual_std(temps) ==
    LET valid_temps == dropna(temps)
    IN  IF Len(valid_temps) < 2
        THEN [raises |-> Some(Exception("ValueError")), value |-> None]
        ELSE [raises |-> None, value |-> Some(variance(valid_temps, 0))]

Utility(op, out) ==
    /\ lastOp' = [NoOp EXCEPT !.op = op, !.ok = (out.raises = None),
                              !.error = out.raises, !.result = out.value]
    /\ UNCHANGED <<grok, temperatures, files, df, stations, started, firstLoad, thread>>

ComputeAnnualMean == Utility("compute_annual_mean", compute_annual_mean(temperatures))

ComputeAnnualStd == Utility("compute_annual_std", compute_annual_std(temperatures))

InitUtil == InitFiles /\ InitStore /\ temperatures \in TemperatureLists

NextUtil == ComputeAnnualMean \/ ComputeAnnualStd

SpecUtil == InitUtil /\ [][NextUtil]_vars

\* ------------------------------------------------------------------------
\* GrokClient (services/llm/grok.py): the lazily created HTTP client.
\* grok.http lists the AsyncClient objects created so far, grok.client is
\* self._client: None or the position of an object in that list.
\* ------------------------------------------------------------------------
MaxClients == 24

\* line 79: self._client is None or self._client.is_closed
needs_client(g) ==
    IF g.client = None THEN TRUE ELSE g.http[g.client[1]].is_closed

\* lines 79-88: the GrokClient after _get_client; the object returned is the
\* one self._client then names
get_client_always_new(g) ==
    [client |-> Some(Len(g.http) + 1), http |-> Append(g.http, [is_closed |-> FALSE])]

get_client(g) ==
    IF needs_client(g)
    THEN [client |-> Some(Len(g.http) + 1), http |-> Append(g.http, [is_closed |-> FALSE])]
    ELSE g

\* lines 92-94: the GrokClient after close
close(g) ==
    IF ~needs_client(g)
    THEN [client |-> None, http |-> [g.http EXCEPT ![g.client[1]].is_closed = TRUE]]
    ELSE g

GrokCall(op, g, result) ==
    /\ grok' = g
    /\ lastOp' = [NoOp EXCEPT !.op = op, !.result = result]
    /\ UNCHANGED <<temperatures, files, df, stations, started, firstLoad, thread>>

GetClient ==
    /\ Len(get_client(grok).http) <= MaxClients
    /\ GrokCall("_get_client", get_client(grok), get_client(grok).client)

Close == GrokCall("close", close(grok), <<>>)

\* a caller closes an HTTP client that _get_client handed out (aclose)
AClose(c) ==
    GrokCall("aclose", [grok EXCEPT !.http[c].is_closed = TRUE], <<>>)

InitGrok ==
    /\ files = [p \in Paths |-> MissingFile]
    /\ InitStore
    /\ temperatures = <<>>

NextGrok ==
    \/ GetClient
    \/ Close
    \/ \E c \in 1..Len(grok.http) : AClose(c)

SpecGrok == InitGrok /\ [][NextGrok]_vars

\* ------------------------------------------------------------------------
\* DataService under concurrent callers (sync route handlers run on a thread
\* pool): the methods of the shared instance, one statement group at a time.
\* No statement of the class takes a lock.
\* ------------------------------------------------------------------------
At(t, pc) == thread[t].pc = pc

Goto(t, pc) == thread' = [thread EXCEPT ![t].pc = pc]

Observe(t, op, result) ==
    lastOp' = [op |-> op, inst |-> "shared", path |-> thread[t].path,
               loaded |-> thread[t].path # "", reload |-> FALSE,
               ok |-> TRUE, error |-> None, result |-> result]

\* a direct call of load_data(file_path)
CallLoadData(t, p) ==
    /\ At(t, "idle")
    /\ thread' = [thread EXCEPT ![t] = [pc |-> "load_enter", path |-> p,
                                        ret |-> "load_ret", local |-> None]]
    /\ UNCHANGED <<grok, temperatures, files, df, stations, started, lastOp, firstLoad>>

\* df property, line 36: if self._df is None
DfCheck(t) ==
    /\ At(t, "idle")
    /\ thread' = [thread EXCEPT ![t] =
                    IF df_needs_load("shared")
                    THEN [pc |-> "load_enter", path |-> DATA_FILE_PATH,
                          ret |-> "df_ret", local |-> None]
                    ELSE [pc |-> "df_ret", path |-> "", ret |-> "", local |-> None]]
    /\ UNCHANGED <<grok, temperatures, files, df, stations, started, lastOp, firstLoad>>

\* get_stations, line 158: if not self._stations
StCheck(t) ==
    /\ At(t, "idle")
    /\ thread' = [thread EXCEPT ![t] =
                    IF stations_needs_load("shared")
                    THEN [pc |-> "load_enter", path |-> DATA_FILE_PATH,
                          ret |-> "st_ret", local |-> None]
                    ELSE [pc |-> "st_ret", path |-> "", ret |-> "", local |-> None]]
    /\ UNCHANGED <<grok, temperatures, files, df, stations, started, lastOp, firstLoad>>

\* load_data, lines 55-125: read the file and build the table in a local;
\* a failure raises through the caller
LoadBuild(t) ==
    /\ At(t, "load_enter")
    /\ LET out == load_outcome("shared", files[thread[t].path])
       IN  IF out.ok
           THEN /\ thread' = [thread EXCEPT ![t].pc = "load_pub_df",
                                            ![t].local = Some(out.table)]
                /\ UNCHANGED lastOp
           ELSE /\ thread' = [thread EXCEPT ![t] = Idle]
                /\ lastOp' = [op |-> "load_data", inst |-> "shared",
                              path |-> thread[t].path, loaded |-> TRUE,
                              reload |-> FALSE, ok |-> FALSE, error |-> out.exc,
                              result |-> <<>>]
    /\ UNCHANGED <<grok, temperatures, files, df, stations, started, firstLoad>>

\* load_data, line 127: self._df = df
LoadPublishDf(t) ==
    /\ At(t, "load_pub_df")
    /\ df' = [df EXCEPT !["shared"] = publish_df(df["shared"], thread[t].local[1])]
    /\ Goto(t, "load_pub_st")
    /\ UNCHANGED <<grok, temperatures, files, stations, started, lastOp, firstLoad>>

\* load_data, lines 130-139: self._stations = [...]
LoadPublishStations(t) ==
    /\ At(t, "load_pub_st")
    /\ stations' = [stations EXCEPT !["shared"] = extract_stations(thread[t].local[1])]
    /\ IF thread[t].ret = "load_ret"
       THEN /\ thread' = [thread EXCEPT ![t] = Idle]
            /\ Observe(t, "load_data", <<>>)
       ELSE /\ thread' = [thread EXCEPT ![t].pc = thread[t].ret, ![t].local = None]
            /\ UNCHANGED lastOp
    /\ UNCHANGED <<grok, temperatures, files, df, started, firstLoad>>

\* df property, line 38, and get_data: return a copy of self._df
DfReturn(t) ==
    /\ At(t, "df_ret")
    /\ Observe(t, "get_data", df["shared"][1])
    /\ thread' = [thread EXCEPT ![t] = Idle]
    /\ UNCHANGED <<grok, temperatures, files, df, stations, started, firstLoad>>

\* get_stations, line 160: return self._stations
StReturn(t) ==
    /\ At(t, "st_ret")
    /\ Observe(t, "get_stations", stations["shared"])
    /\ thread' = [thread EXCEPT ![t] = Idle]
    /\ UNCHANGED <<grok, temperatures, files, df, stations, started, firstLoad>>

NextConc ==
    \E t \in Threads :
        \/ \E p \in Paths : CallLoadData(t, p)
        \/ DfCheck(t)
        \/ StCheck(t)
        \/ LoadBuild(t)
        \/ LoadPublishDf(t)
        \/ LoadPublishStations(t)
        \/ DfReturn(t)
        \/ StReturn(t)

SpecConc == Init /\ [][NextConc]_vars

\* ------------------------------------------------------------------------
\* Properties
\* ------------------------------------------------------------------------
Loaded(inst) == df[inst] # None

HasLoaded(inst) == \E p \in Paths : firstLoad[inst][p] # None

ReadingIds(inst) == {df[inst][1][i].station_id : i \in 1..Len(df[inst][1])}

DirectoryIds(inst) == {stations[inst][i].id : i \in 1..Len(stations[inst])}

InLoadBody(t) == thread[t].pc \in {"load_enter", "load_pub_df", "load_pub_st"}

LazyCaller(t) == thread[t].ret \in {"df_ret", "st_ret"}

\* C1: whenever a read can start (some thread is idle) on a store that has
\* published a Reading set, the Station Directory lists exactly the station
\* ids of that Reading set -- even while another thread is inside load_data.
C1_ReadersSeeOneDataSet ==
    ((\E t \in Threads : At(t, "idle")) /\ Loaded("shared"))
        => DirectoryIds("shared") = ReadingIds("shared")

\* C2: the lazy path is a single-writer critical section: at most one lazy
\* caller is inside the body of load_data at a time, and no lazy caller is
\* about to run the body on a store that another caller has already loaded.
C2_LazyLoadSingleWriter ==
    /\ Cardinality({t \in Threads : InLoadBody(t) /\ LazyCaller(t)}) <= 1
    /\ \A t \in Threads :
          (At(t, "load_enter") /\ LazyCaller(t))
              => ~(Loaded("shared") /\ stations["shared"] # <<>>)

\* What the next Stations / StationExists / Query call answers on a store
\* with the given attributes (None when the call raises).
default_outcome == load_outcome(handler_store, files[DATA_FILE_PATH])

answer_stations(stv) ==
    IF stv # <<>> THEN Some(stv)
    ELSE IF default_outcome.ok THEN Some(extract_stations(default_outcome.table))
    ELSE None

answer_exists(stv, sid) ==
    IF answer_stations(stv) = None THEN None
    ELSE Some(sid \in {answer_stations(stv)[1][i].id : i \in 1..Len(answer_stations(stv)[1])})

answer_data(dfv) ==
    IF dfv # None THEN dfv
    ELSE IF default_outcome.ok THEN Some(default_outcome.table)
    ELSE None

MutationOps == {"mutate_stations", "mutate_data"}

\* C3: a caller changing a returned result changes no later answer: across a
\* mutation step the answers of Stations, StationExists and Query stay the same.
C3_ResultsAreSnapshots ==
    [][lastOp'.op \in MutationOps =>
          /\ answer_stations(stations'[handler_store]) = answer_stations(stations[handler_store])
          /\ \A sid \in StationIdArgs :
                answer_exists(stations'[handler_store], sid)
                    = answer_exists(stations[handler_store], sid)
          /\ answer_data(df'[handler_store]) = answer_data(df[handler_store])]_vars

ReadOnlyOps == {"get_stations", "station_exists", "validate_stations",
                "get_monthly_data", "get_annual_data", "get_analytics"}

\* C4: on a store on which a Load has completed, a Stations, StationExists,
\* validate_stations, GetMonthly, GetAnnual or GetAnalytics call leaves the
\* Reading set and the Station Directory unchanged.
C4_ReadsLeaveStoreUnchanged ==
    [][(HasLoaded(handler_store) /\ lastOp'.op \in ReadOnlyOps)
          => (df' = df /\ stations' = stations)]_vars

\* C5: a Query or Stations call performs a Load if and only if no Load has
\* succeeded on the store before the call.
C5_LazyLoadOnlyWhenNeverLoaded ==
    [][lastOp'.op \in {"get_data", "get_stations"}
          => (lastOp'.loaded <=> ~HasLoaded(lastOp'.inst))]_vars

RequestOps == ReadOnlyOps \cup {"get_data"}

\* C6: after a successful startup no request performs a Load: the store the
\* startup sequence loaded is the one the handlers read.  (Stated for a
\* startup that found at least one station, so that the emptiness test of
\* get_stations plays no part.)
C6_StoreBuiltOnceAtStartup ==
    [][(started /\ stations[startup_store] # <<>> /\ lastOp'.op \in RequestOps)
          => ~lastOp'.loaded]_vars

\* (station_id, year, month) of a before-or-equal that of b, ids as strings
LexLeq(a, b) ==
    \/ StrLess(a.station_id, b.station_id)
    \/ /\ a.station_id = b.station_id
       /\ \/ a.year < b.year
          \/ a.year = b.year /\ a.month <= b.month

NonDecreasing(rows) == \A i \in 1..(Len(rows) - 1) : LexLeq(rows[i], rows[i + 1])

\* C7: the loaded Reading set, and the result of every Query, is non-decreasing
\* in (station_id, year, month), station_id compared as a string.
C7_SortInvariant ==
    /\ Loaded("shared") => NonDecreasing(df["shared"][1])
    /\ (lastOp.op = "get_data" /\ lastOp.ok) => NonDecreasing(lastOp.result)

C7_Witness ==
    /\ lastOp.op = "get_data" /\ lastOp.ok
    /\ Len(lastOp.result) = 2 * NumMonths
    /\ lastOp.result[1].station_id = Str(10)
    /\ lastOp.result[Len(lastOp.result)].station_id = Str(9)

UniqueKeys(rows) ==
    \A i, j \in 1..Len(rows) :
        (rows[i].station_id = rows[j].station_id /\ rows[i].year = rows[j].year
            /\ rows[i].month = rows[j].month) => i = j

UniqueStationYears(srows) ==
    \A i, j \in 1..Len(srows) :
        (srows[i].station = srows[j].station /\ srows[i].year = srows[j].year) => i = j

\* C8 (as claimed): after every successful Load the Reading set holds at most
\* one Reading for each (station_id, year, month).
C8_AtMostOneReadingPerKey ==
    Loaded("shared") => UniqueKeys(df["shared"][1])

\* C8 (amended): after a successful Load of a source in which no
\* (station, year) pair occurs in more than one row, the Reading set holds at
\* most one Reading for each (station_id, year, month).
C8_UniqueWhenSourceRowsUnique ==
    (lastOp.loaded /\ lastOp.ok /\ UniqueStationYears(files[lastOp.path].rows))
        => UniqueKeys(df[lastOp.inst][1])

C8_Witness ==
    /\ lastOp.op = "load_data" /\ lastOp.ok
    /\ Len(files[lastOp.path].rows) = 2
    /\ UniqueStationYears(files[lastOp.path].rows)
    /\ Len(df[lastOp.inst][1]) = 2 * NumMonths

\* C9: every successful Load of a path publishes the Reading set (count,
\* values, order) and the Station Directory that the first successful Load
\* of that path published, whatever was loaded or read in between.
C9_IdempotentLoad ==
    (lastOp.loaded /\ lastOp.ok) =>
        /\ firstLoad[lastOp.inst][lastOp.path] # None
        /\ df[lastOp.inst] = Some(firstLoad[lastOp.inst][lastOp.path][1].df)
        /\ stations[lastOp.inst] = firstLoad[lastOp.inst][lastOp.path][1].stations

C9_Witness ==
    /\ lastOp.op = "load_data" /\ lastOp.ok /\ lastOp.reload
    /\ Len(df[lastOp.inst][1]) >= NumMonths

\* the temperature a raw cell stands for: its number, or null
Expected(cell) == IF cell.num THEN Some(cell.v) ELSE None

\* C10: a successful Load turns every source row into 12 Readings of its
\* station and year, month k carrying the value of the k-th month column
\* (null for a cell that is not a number); and a Load of an existing file
\* with all columns and numeric years never fails, whatever its month cells.
C10_TwelveReadingsPerRow ==
    lastOp.loaded =>
      LET srows == files[lastOp.path].rows
          table == df[lastOp.inst][1]
      IN  /\ (files[lastOp.path].exists /\ AllCols \subseteq files[lastOp.path].columns
                /\ \A j \in 1..Len(srows) : srows[j].year.num) => lastOp.ok
          /\ lastOp.ok =>
               /\ Len(table) = NumMonths * Len(srows)
               /\ \A j \in 1..Len(srows), k \in 1..NumMonths :
                     Cardinality({i \in 1..Len(table) :
                              /\ table[i].station_id = Str(srows[j].station)
                              /\ table[i].year = srows[j].year.v
                              /\ table[i].month = k
                              /\ table[i].temperature = Expected(srows[j].cells[month_cols[k]])})
                       = Cardinality({i \in 1..Len(srows) :
                              /\ srows[i].station = srows[j].station
                              /\ srows[i].year = srows[j].year
                              /\ srows[i].cells[month_cols[k]] = srows[j].cells[month_cols[k]]})

C10_Witness ==
    /\ lastOp.op = "load_data" /\ lastOp.ok
    /\ \E i \in 1..Len(df[lastOp.inst][1]) :
          /\ df[lastOp.inst][1][i].month = 3
          /\ df[lastOp.inst][1][i].temperature = None
    /\ \E i \in 1..Len(df[lastOp.inst][1]) :
          /\ df[lastOp.inst][1][i].month = NumMonths
          /\ df[lastOp.inst][1][i].temperature = Some(100 + NumMonths)

\* C11: a Load that fails ends in a DataLoadError and nothing else: the
\* not-found error for a path without a file, the schema error naming exactly
\* the absent columns (raised inside the try statement and passed through
\* unwrapped, so without a cause) for a file lacking a column, and for every
\* other failure the parse error carrying the original exception as its cause.
C11_LoadFailsWithDataLoadErrorOnly ==
    (lastOp.loaded /\ ~lastOp.ok) =>
        /\ lastOp.error # None
        /\ LET f == files[lastOp.path]
               e == lastOp.error[1]
           IN  /\ e.type = "DataLoadError"
               /\ ~f.exists => (e.kind = "not_found" /\ e.cause = None)
               /\ (f.exists /\ ~(AllCols \subseteq f.columns)) =>
                     /\ e.kind = "schema"
                     /\ Range(e.missing) = AllCols \ f.columns
                     /\ Len(e.missing) = Cardinality(AllCols \ f.columns)
                     /\ e.cause = None
               /\ (f.exists /\ AllCols \subseteq f.columns) =>
                     /\ e.kind = "parse"
                     /\ e.cause # None
                     /\ e.cause[1].type # "DataLoadError"

C11_Witness ==
    /\ lastOp.op = "load_data" /\ ~lastOp.ok
    /\ lastOp.error # None
    /\ lastOp.error[1].kind = "schema"
    /\ lastOp.error[1].missing = <<"Dec">>

\* the Readings of rows that satisfy the three conditions of Query, each
\* bound applied whenever it is present, in the order of rows
matching(rows, station_ids, year_from, year_to) ==
    SelectSeq(rows, LAMBDA r :
        /\ (station_ids = None \/ station_ids[1] = <<>>
               \/ r.station_id \in SeqToSet(station_ids[1]))
        /\ (year_from = None \/ r.year >= year_from[1])
        /\ (year_to = None \/ r.year <= year_to[1]))

\* C12: every Query call that returns, whatever the station ids and whatever
\* integer a present bound holds, returns exactly the stored Readings that
\* satisfy the station condition and each present bound, in stored order.
C12_QueryReturnsExactlyTheMatches ==
    [][\A ids \in QueryIds, yf \in OptYears, yt \in OptYears :
          (GetData("shared", ids, yf, yt) /\ lastOp'.ok)
              => lastOp'.result = matching(df'["shared"][1], ids, yf, yt)]_vars

\* C13: in the state a successful Load leaves, Stations() answers with
\* exactly one entry per distinct station_id of the Reading set that Load
\* built and no other entry, each named 'Station ' + id, in ascending order of
\* name; and StationExists(id) answers whether some Reading has that id.
C13_DirectoryListsTheStationsOfTheReadings ==
    (lastOp.op = "load_data" /\ lastOp.ok) =>
        LET listed == answer_stations(stations[lastOp.inst])
        IN  /\ listed # None
            /\ {listed[1][i].id : i \in 1..Len(listed[1])} = ReadingIds(lastOp.inst)
            /\ Len(listed[1]) = Cardinality(ReadingIds(lastOp.inst))
            /\ \A i \in 1..Len(listed[1]) : listed[1][i].name = StationName(listed[1][i].id)
            /\ \A i, j \in 1..Len(listed[1]) :
                  i < j => ~NameLess(listed[1][j].name, listed[1][i].name)
            /\ \A sid \in StationIdArgs :
                  answer_exists(stations[lastOp.inst], sid)
                      = Some(sid \in ReadingIds(lastOp.inst))

\* the ids a stations parameter names, and those of them that no entry of
\* the Station Directory carries
NamedIds(raw) == SelectSeq(raw, LAMBDA item : item # <<>>)

UnknownIds(raw) == SelectSeq(NamedIds(raw), LAMBDA sid : sid \notin DirectoryIds(handler_store))

Inverted(request) ==
    /\ request.year_from # None /\ request.year_to # None
    /\ request.year_from[1] > request.year_to[1]

InWindow(r, year_from, year_to) ==
    /\ (year_from = None \/ r.year >= year_from[1])
    /\ (year_to = None \/ r.year <= year_to[1])

\* the stored Readings of a station inside the window, in stored order
StationMatches(rows, sid, year_from, year_to) ==
    SelectSeq(rows, LAMBDA r : r.station_id = sid /\ InWindow(r, year_from, year_to))

\* C15: GetMonthly returns, in the order of the requested ids, one record for
\* each requested station with at least one Reading inside the year window
\* and none for the others; the data of a record are that station's Readings
\* inside the window in stored order, a null temperature staying null; and
\* total_points is the sum of the lengths of the data lists.
C15_MonthlyProjection ==
    [][\A ids \in AggIdLists, yf \in OptYears, yt \in OptYears :
          (GetMonthly(ids, yf, yt) /\ lastOp'.ok) =>
              LET out == lastOp'.result[1]
                  stored == df'[handler_store][1]
                  emitted == SelectSeq(ids, LAMBDA sid :
                                 StationMatches(stored, sid, yf, yt) # <<>>)
              IN  /\ [i \in 1..Len(out.stations) |-> out.stations[i].station_id] = emitted
                  /\ \A i \in 1..Len(out.stations) :
                        LET found == StationMatches(stored, out.stations[i].station_id, yf, yt)
                        IN  out.stations[i].data =
                              [k \in 1..Len(found) |->
                                  [year |-> found[k].year, month |-> found[k].month,
                                   temperature |-> found[k].temperature]]
                  /\ out.total_points =
                        Sum([i \in 1..Len(out.stations) |-> Len(out.stations[i].data)])]_vars

\* the answer of GetAnnual holds a point of year y for station sid
EmitsYear(out, sid, y) ==
    \E i \in 1..Len(out.stations) :
        /\ out.stations[i].station_id = sid
        /\ \E k \in 1..Len(out.stations[i].data) : out.stations[i].data[k].year = y

\* station sid has a non-null temperature in year y inside the window
HasValueIn(rows, sid, y, year_from, year_to) ==
    \E j \in 1..Len(rows) :
        /\ rows[j].station_id = sid /\ rows[j].year = y
        /\ rows[j].temperature # None
        /\ InWindow(rows[j], year_from, year_to)

\* C16: GetAnnual emits a point for (station, year) exactly when the station
\* has a non-null temperature in that year inside the year window, so a year
\* of null Readings is dropped; the years of a station are strictly
\* ascending, hence each appears once.
C16_AnnualEntries ==
    [][\A ids \in AggIdLists, yf \in OptYears, yt \in OptYears :
          (GetAnnual(ids, yf, yt) /\ lastOp'.ok) =>
              LET out == lastOp'.result[1]
                  stored == df'[handler_store][1]
                  years == {stored[j].year : j \in 1..Len(stored)}
              IN  /\ \A i \in 1..Len(out.stations) :
                        /\ \E n \in 1..Len(ids) : ids[n] = out.stations[i].station_id
                        /\ \A k \in 1..Len(out.stations[i].data) :
                              /\ out.stations[i].data[k].year \in years
                              /\ k > 1 => out.stations[i].data[k - 1].year
                                            < out.stations[i].data[k].year
                  /\ \A n \in 1..Len(ids) : \A y \in years :
                        EmitsYear(out, ids[n], y) <=> HasValueIn(stored, ids[n], y, yf, yt)]_vars

\* the non-null temperatures station sid has inside the window, year y only
\* when y is given
ValuesIn(rows, sid, y, year_from, year_to) ==
    SelectSeq(rows, LAMBDA r : /\ r.station_id = sid
                               /\ r.temperature # None
                               /\ (y = None \/ r.year = y[1])
                               /\ InWindow(r, year_from, year_to))

\* the answer of the last call when it was a GetAnnual that returned
AnnualAnswers ==
    IF lastOp.op = "get_annual_data" /\ lastOp.ok THEN {lastOp.result[1]}
    ELSE IF lastOp.op = "GET /data/annual" /\ lastOp.ok /\ lastOp.result[1].status = 200
    THEN {lastOp.result[1].body[1]}
    ELSE {}

\* C17: insufficient data is no error inside the aggregations. Every point
\* GetAnnual answers for a year in which the station has exactly one non-null
\* temperature has std = 0; a served analytics request answers std_temp = 0
\* for every requested station with exactly one non-null temperature in
\* range; and a call of either fails only when the data cannot be loaded.
C17_SingleValueStdIsZero ==
    /\ \A out \in AnnualAnswers :
          \A i \in 1..Len(out.stations) : \A k \in 1..Len(out.stations[i].data) :
              Len(ValuesIn(df[handler_store][1], out.stations[i].station_id,
                           Some(out.stations[i].data[k].year), None, None)) = 1
                => out.stations[i].data[k].std = 0
    /\ (lastOp.op = "GET /analytics" /\ lastOp.ok /\ lastOp.result[1].status = 200) =>
          LET out == lastOp.result[1].body[1]
              core == lastOp.result[1].core[1]
          IN  \A n \in 1..Len(core.station_ids) :
                 Len(ValuesIn(df[handler_store][1], core.station_ids[n], None,
                              core.year_from, core.year_to)) = 1
                   => \E i \in 1..Len(out.stations) :
                         /\ out.stations[i].station_id = core.station_ids[n]
                         /\ out.stations[i].std_temp = 0
    /\ (lastOp.op \in {"get_annual_data", "get_analytics"} /\ ~lastOp.ok) =>
          lastOp.error[1].type = "DataLoadError"

\* GetAnnual answered for station 9: three values in 1859, one in 1860
C17_Witness ==
    /\ lastOp.op = "get_annual_data" /\ lastOp.ok
    /\ Len(lastOp.result[1].stations) = 1
    /\ lastOp.result[1].stations[1].station_id = Str(9)
    /\ Len(lastOp.result[1].stations[1].data) = 2
    /\ lastOp.result[1].stations[1].data[1].std > 0
    /\ lastOp.result[1].stations[1].data[2].year = 1860
    /\ lastOp.result[1].stations[1].data[2].std = 0
    /\ lastOp.result[1].stations[1].data[2].mean = 1030

\* the values of a list that are not None
NotNone(temps) ==
    LET kept == SelectSeq(temps, LAMBDA t : t # None)
    IN  [i \in 1..Len(kept) |-> kept[i][1]]

\* the sum over xs of (Len(xs) * x - Sum(xs))^2, which is Len(xs)^2 times the
\* sum of the squared deviations from the mean
RECURSIVE ScaledSquares(_, _, _)
ScaledSquares(xs, n, total) ==
    IF xs = <<>> THEN 0
    ELSE (n * Head(xs) - total) * (n * Head(xs) - total)
           + ScaledSquares(Tail(xs), n, total)

\* C18: the standalone utilities signal insufficient data. compute_annual_std
\* raises for a list with fewer than 2 values that are not None and
\* compute_annual_mean for a list with none; otherwise they return the mean,
\* respectively the population standard deviation, of the values that are
\* not None.
C18_UtilitiesSignalInsufficientData ==
    LET xs == NotNone(temperatures)
        n == Len(xs)
    IN  /\ lastOp.op = "compute_annual_mean" =>
              IF n = 0
              THEN ~lastOp.ok /\ lastOp.error = Some(Exception("ValueError"))
              ELSE /\ lastOp.ok
                   /\ lastOp.result[1].num * n = lastOp.result[1].den * Sum(xs)
        /\ lastOp.op = "compute_annual_std" =>
              IF n < 2
              THEN ~lastOp.ok /\ lastOp.error = Some(Exception("ValueError"))
              ELSE /\ lastOp.ok
                   /\ lastOp.result[1].num * n * n * n
                        = lastOp.result[1].den * ScaledSquares(xs, n, Sum(xs))

\* compute_annual_std raised for a list whose only value stands beside a None
C18_Witness ==
    /\ temperatures = <<Some(104), None>>
    /\ lastOp.op = "compute_annual_std"
    /\ ~lastOp.ok
    /\ lastOp.error[1].type = "ValueError"

\* the non-null temperatures stored for station sid in year y
YearValues(rows, sid, y) ==
    NotNone([i \in 1..Len(SelectSeq(rows, LAMBDA r : r.station_id = sid /\ r.year = y)) |->
                SelectSeq(rows, LAMBDA r : r.station_id = sid /\ r.year = y)[i].temperature])

\* the population variance: the squared deviations from the mean, divided by N
PopulationVariance(xs) ==
    [num |-> ScaledSquares(xs, Len(xs), Sum(xs)), den |-> Len(xs) * Len(xs) * Len(xs)]

\* C19: for every (station, year) with at least 2 non-null temperatures, the
\* std GetAnnual reports is the population standard deviation of those
\* temperatures (divisor N, not N-1), rounded to 2 decimals.
C19_AnnualStdIsPopulationStd ==
    (lastOp.op = "get_annual_data" /\ lastOp.ok) =>
        \A i \in 1..Len(lastOp.result[1].stations) :
            LET rec == lastOp.result[1].stations[i]
            IN  \A k \in 1..Len(rec.data) :
                    LET xs == YearValues(df[handler_store][1], rec.station_id, rec.data[k].year)
                    IN  Len(xs) >= 2 =>
                            rec.data[k].std = round2(Zero, 1, PopulationVariance(xs))

\* C20: the bounds of every annual point come from the rounded fields:
\* upper_bound is the reported mean plus the reported std and lower_bound the
\* reported mean minus the reported std (a sum of two 2-decimal figures is
\* its own rounding to 2 decimals).
C20_BoundsFromRoundedFields ==
    (lastOp.op = "get_annual_data" /\ lastOp.ok) =>
        \A i \in 1..Len(lastOp.result[1].stations) :
            \A k \in 1..Len(lastOp.result[1].stations[i].data) :
                LET point == lastOp.result[1].stations[i].data[k]
                IN  /\ point.upper_bound = point.mean + point.std
                    /\ point.lower_bound = point.mean - point.std

FirstWith(rows, t) ==
    rows[CHOOSE i \in 1..Len(rows) :
            /\ rows[i].temperature = Some(t)
            /\ \A j \in 1..(i - 1) : rows[j].temperature # Some(t)]

\* C22: for every station GetAnalytics includes, min_temp and max_temp are
\* the lowest and the highest of the station's non-null temperatures in range
\* and the year and month reported with each are those of the first Reading,
\* in stored order, that has that temperature.
C22_ExtremaAndTheirFirstReading ==
    [][\A ids \in AggIdLists, yf \in OptYears, yt \in OptYears :
          (lastOp'.op = "get_analytics" /\ GetAnalytics(ids, yf, yt) /\ lastOp'.ok) =>
              \A i \in 1..Len(lastOp'.result[1].stations) :
                  LET rec == lastOp'.result[1].stations[i]
                      found == ValuesIn(df'[handler_store][1], rec.station_id, None, yf, yt)
                      temps == {found[k].temperature[1] : k \in 1..Len(found)}
                  IN  /\ found # <<>>
                      /\ \E lo \in temps, hi \in temps :
                            /\ \A t \in temps : lo <= t /\ t <= hi
                            /\ rec.min_temp = 10 * lo
                            /\ rec.max_temp = 10 * hi
                            /\ rec.min_temp_year = FirstWith(found, lo).year
                            /\ rec.min_temp_month = FirstWith(found, lo).month
                            /\ rec.max_temp_year = FirstWith(found, hi).year
                            /\ rec.max_temp_month = FirstWith(found, hi).month]_vars

\* the mean of the temperatures of the rows of year y, as a fraction
MeanOfYear(found, y) ==
    LET rows == SelectSeq(found, LAMBDA r : r.year = y)
    IN  [num |-> Sum([k \in 1..Len(rows) |-> rows[k].temperature[1]]), den |-> Len(rows)]

\* C23: for every station GetAnalytics includes, hottest_year (coldest_year)
\* is a year in range whose mean over its non-null Readings is the highest
\* (lowest) among the station's years with a non-null Reading, the smallest
\* such year when several tie, and the temperature reported with it is that
\* mean.
C23_HottestAndColdestYear ==
    [][\A ids \in AggIdLists, yf \in OptYears, yt \in OptYears :
          (lastOp'.op = "get_analytics" /\ GetAnalytics(ids, yf, yt) /\ lastOp'.ok) =>
              \A i \in 1..Len(lastOp'.result[1].stations) :
                  LET rec == lastOp'.result[1].stations[i]
                      found == ValuesIn(df'[handler_store][1], rec.station_id, None, yf, yt)
                      years == {found[k].year : k \in 1..Len(found)}
                  IN  /\ rec.hottest_year \in years
                      /\ rec.coldest_year \in years
                      /\ \A y \in years :
                            /\ ~FracLess(MeanOfYear(found, rec.hottest_year), MeanOfYear(found, y))
                            /\ ~FracLess(MeanOfYear(found, y), MeanOfYear(found, rec.coldest_year))
                            /\ y < rec.hottest_year =>
                                  FracLess(MeanOfYear(found, y), MeanOfYear(found, rec.hottest_year))
                            /\ y < rec.coldest_year =>
                                  FracLess(MeanOfYear(found, rec.coldest_year), MeanOfYear(found, y))
                      /\ rec.hottest_year_temp
                            = round2(MeanOfYear(found, rec.hottest_year), 0, Zero)
                      /\ rec.coldest_year_temp
                            = round2(MeanOfYear(found, rec.coldest_year), 0, Zero)]_vars

\* the station's Readings inside the window, null temperatures included
ReadingsIn(rows, sid, year_from, year_to) ==
    SelectSeq(rows, LAMBDA r : r.station_id = sid /\ InWindow(r, year_from, year_to))

\* c is n / t times 100 rounded to one decimal, in tenths of a percent
IsPercentage(c, n, t) ==
    LET off == IF c * t >= 1000 * n THEN c * t - 1000 * n ELSE 1000 * n - c * t
    IN  /\ t > 0
        /\ 2 * off <= t
        /\ 2 * off = t => c % 2 = 0

\* C24: for every station GetAnalytics includes and every year window,
\* data_coverage is the number of the station's Readings in range with a
\* temperature, divided by the number of its Readings in range, times 100 and
\* rounded to one decimal; it lies between 0 and 100.
C24_Coverage ==
    [][\A ids \in AggIdLists, yf \in OptYears, yt \in OptYears :
          (lastOp'.op = "get_analytics" /\ GetAnalytics(ids, yf, yt) /\ lastOp'.ok) =>
              \A i \in 1..Len(lastOp'.result[1].stations) :
                  LET rec == lastOp'.result[1].stations[i]
                      stored == df'[handler_store][1]
                  IN  /\ IsPercentage(rec.data_coverage,
                                      Len(ValuesIn(stored, rec.station_id, None, yf, yt)),
                                      Len(ReadingsIn(stored, rec.station_id, yf, yt)))
                      /\ 0 <= rec.data_coverage /\ rec.data_coverage <= 1000]_vars

\* the answer of the last call when it was a GetAnalytics that returned
AnalyticsAnswers ==
    IF lastOp.op = "get_analytics" /\ lastOp.ok THEN {lastOp.result[1]}
    ELSE IF lastOp.op = "GET /analytics" /\ lastOp.ok /\ lastOp.result[1].status = 200
    THEN {lastOp.result[1].body[1]}
    ELSE {}

\* C25: in every station record GetAnalytics returns, the reported values
\* satisfy min_temp <= mean_temp <= max_temp.
C25_MinMeanMaxOrdered ==
    \A out \in AnalyticsAnswers :
        \A i \in 1..Len(out.stations) :
            /\ out.stations[i].min_temp <= out.stations[i].mean_temp
            /\ out.stations[i].mean_temp <= out.stations[i].max_temp

\* station 9 answered with 10.1 < 10.25 < 10.4
C25_Witness ==
    \E out \in AnalyticsAnswers :
        /\ Len(out.stations) = 1
        /\ out.stations[1].station_id = Str(9)
        /\ out.stations[1].min_temp = 1010
        /\ out.stations[1].mean_temp = 1025
        /\ out.stations[1].max_temp = 1040

\* C26: GetAnalytics includes a requested station exactly when the station
\* has a non-null Reading in range; total_stations is the number of records
\* in the response and does not exceed the number of ids requested.
C26_IncludedIffHasValue ==
    [][\A ids \in AggIdLists, yf \in OptYears, yt \in OptYears :
          (lastOp'.op = "get_analytics" /\ GetAnalytics(ids, yf, yt)) =>
              /\ lastOp'.ok
              /\ LET out == lastOp'.result[1]
                     stored == df'[handler_store][1]
                 IN  /\ \A n \in 1..Len(ids) :
                           (\E i \in 1..Len(out.stations) : out.stations[i].station_id = ids[n])
                             <=> ValuesIn(stored, ids[n], None, yf, yt) # <<>>
                     /\ \A i \in 1..Len(out.stations) :
                           \E n \in 1..Len(ids) : ids[n] = out.stations[i].station_id
                     /\ out.total_stations = Len(out.stations)
                     /\ out.total_stations <= Len(ids)]_vars

\* C27: year_range is the smallest and the largest year over all Readings
\* that match the filter for the requested stations together, whichever
\* stations are included, and the pair (1859, 2019) when no Reading matches.
C27_YearRange ==
    [][\A ids \in AggIdLists, yf \in OptYears, yt \in OptYears :
          (lastOp'.op = "get_analytics" /\ GetAnalytics(ids, yf, yt) /\ lastOp'.ok) =>
              LET stored == df'[handler_store][1]
                  years == {stored[j].year : j \in
                              {k \in 1..Len(stored) :
                                  /\ \E n \in 1..Len(ids) : ids[n] = stored[k].station_id
                                  /\ InWindow(stored[k], yf, yt)}}
                  year_range == lastOp'.result[1].year_range
              IN  IF years = {} THEN year_range = <<1859, 2019>>
                  ELSE /\ year_range[1] \in years /\ \A y \in years : year_range[1] <= y
                       /\ year_range[2] \in years /\ \A y \in years : y <= year_range[2]]_vars

\* C28: a Load that fails leaves the store as it was: the published table and
\* the Station Directory of every store are unchanged, so a never-loaded store
\* stays never-loaded and every later query reads what it read before.
C28_FailedLoadChangesNothing ==
    [][(lastOp'.loaded /\ ~lastOp'.ok) =>
          /\ df' = df
          /\ stations' = stations
          /\ firstLoad' = firstLoad]_vars

\* a load of an unparsable file failed on a store that holds a table
C28_Witness ==
    /\ lastOp.op = "load_data" /\ lastOp.path = ALT_FILE_PATH
    /\ lastOp.loaded /\ ~lastOp.ok
    /\ lastOp.error[1].kind = "parse"
    /\ df[lastOp.inst] # None
    /\ Len(df[lastOp.inst][1]) = 2 * NumMonths
    /\ Len(stations[lastOp.inst]) = 2

\* no station_id stands in two records of a response
OneRecordPerStation(out) ==
    \A i \in 1..Len(out.stations) : \A j \in 1..Len(out.stations) :
        out.stations[i].station_id = out.stations[j].station_id => i = j

\* C29: for every list of station ids, one that repeats an id included, the
\* response of GetMonthly, GetAnnual and GetAnalytics holds at most one record
\* per station_id, and total_points of GetMonthly does not exceed the number
\* of Readings Query returns for the same arguments.
C29_OneRecordPerStation ==
    [][\A ids \in AggIdLists, yf \in OptYears, yt \in OptYears :
          /\ (lastOp'.op = "get_monthly_data" /\ GetMonthly(ids, yf, yt) /\ lastOp'.ok) =>
                /\ OneRecordPerStation(lastOp'.result[1])
                /\ lastOp'.result[1].total_points
                      <= Len(filter_data(df'[handler_store][1], Some(ids), yf, yt))
          /\ (lastOp'.op = "get_annual_data" /\ GetAnnual(ids, yf, yt) /\ lastOp'.ok) =>
                OneRecordPerStation(lastOp'.result[1])
          /\ (lastOp'.op = "get_analytics" /\ GetAnalytics(ids, yf, yt) /\ lastOp'.ok) =>
                OneRecordPerStation(lastOp'.result[1])]_vars

\* the HTTP clients created so far that are open
OpenClients(g) == {c \in 1..Len(g.http) : ~g.http[c].is_closed}

\* C30: over any sequence of _get_client and close calls at most one HTTP
\* client is open. _get_client returns the client self._client names while
\* that one is open and creates a client only when there is none or it is
\* closed; close closes the open client and sets self._client to None; close
\* without an open client changes nothing; neither call raises.
C30_AtMostOneOpenClient ==
    [][/\ Cardinality(OpenClients(grok')) <= 1
       /\ lastOp'.op = "_get_client" =>
             /\ lastOp'.ok
             /\ lastOp'.result = grok'.client
             /\ IF OpenClients(grok) # {} /\ grok.client # None
                   /\ grok.client[1] \in OpenClients(grok)
                THEN grok' = grok
                ELSE /\ Len(grok'.http) = Len(grok.http) + 1
                     /\ grok'.client = Some(Len(grok'.http))
                     /\ OpenClients(grok') = {Len(grok'.http)}
       /\ lastOp'.op = "close" =>
             /\ lastOp'.ok
             /\ IF OpenClients(grok) # {}
                THEN /\ OpenClients(grok') = {}
                     /\ grok'.client = None
                     /\ Len(grok'.http) = Len(grok.http)
                ELSE grok' = grok]_vars

\* _get_client created a third client after one was closed by close and one
\* by its holder
C30_Witness ==
    /\ lastOp.op = "_get_client"
    /\ Len(grok.http) = 3
    /\ grok.client = Some(3)
    /\ OpenClients(grok) = {3}

====
